---- MODULE Spec2Model ----
(***************************************************************************)
(* A model of the task library (src/src/task_lib.rs: Target, Task and its  *)
(* default methods) and of the DAG scheduler (src/src/scheduler_ilb.rs:    *)
(* DAG::new, DAG::run, DAG::delete_all, get_run_candidates, make_node).    *)
(*                                                                         *)
(* A behaviour is a user program that performs a bounded number of library *)
(* calls, one after the other, on one task graph and one file system:      *)
(* DAG::new(head), dag.run(LOCAL | PARALLEL), dag.delete_all(),            *)
(* head.run(), head.recursively_delete_data(); and, for the delete methods *)
(* of a task, t.delete_deps() and the recursively_delete_deps() of the     *)
(* older trait in src/src/lib.rs.  Every call is modelled                  *)
(* step by step (worklist iterations, recursion frames, the workers of a   *)
(* frontier), so that the effects of an error in the middle of a call, and *)
(* the interleavings of the rayon workers, are states of the model.        *)
(***************************************************************************)
EXTENDS Integers, Sequences, FiniteSets, TLC

\* Bounds of the model: library calls per behaviour, injected I/O errors.
MaxOps == 3
MaxFaults == 1

------------------------------------------------------------------------------
(* Targets and the file system                                             *)

Kinds == 1..4
Files == 1..4

\* A task whose get_target() returns NullTarget {} has target NullTarget.
NullTarget == 0

\* Content of a path that is not a regular file.
NoFile == <<-1>>
\* Content left by an earlier process (a cached output).
Stale == <<9>>
\* Content of a file that fs::write created and then failed to fill.
Partial == <<>>
\* The bytes " - " the test tasks put between two parts of their output.
Sep == 0

\* The user's task types: what get_dep_tasks, get_target, validate and
\* compute_output of each are.  bytes are the task's own bytes, which
\* compute_output puts after what it read from its dependencies.
Leaf(f) ==
    [deps |-> {}, target |-> f, min_len |-> 0, reads |-> TRUE, bytes |-> <<f>>]

Inner(d, f, b) ==
    [deps |-> d, target |-> f, min_len |-> 0, reads |-> TRUE, bytes |-> b]

Wrapper(d) ==
    [deps |-> d, target |-> NullTarget, min_len |-> 0, reads |-> FALSE, bytes |-> <<>>]

\* scheduler tests: FinalTask -> {Dep1, Dep2}, Dep2 -> {Dep3}.
GTest ==
    (1 :> Inner({2, 3}, 1, <<>>)) @@ (2 :> Leaf(2))
    @@ (3 :> Inner({4}, 3, <<Sep, 3>>)) @@ (4 :> Leaf(4))

\* Two parents that declare the same dependency (same type, same target).
GDiamond ==
    (1 :> Inner({2, 3}, 1, <<>>)) @@ (2 :> Inner({4}, 2, <<Sep, 2>>))
    @@ (3 :> Inner({4}, 3, <<Sep, 3>>)) @@ (4 :> Leaf(4))

\* A wrapper task: NullTarget, exists solely to run its dependencies.
GWrapper ==
    (1 :> Wrapper({2, 3})) @@ (2 :> Leaf(2)) @@ (3 :> Leaf(3)) @@ (4 :> Leaf(4))

\* A wrapper in the middle of a chain.
GNullDep ==
    (1 :> Inner({2}, 1, <<Sep, 1>>)) @@ (2 :> Wrapper({3}))
    @@ (3 :> Leaf(3)) @@ (4 :> Leaf(4))

\* tests::validation: a task whose validate wants more bytes than it computes.
GValidate ==
    (1 :> [deps |-> {2}, target |-> 1, min_len |-> 4, reads |-> TRUE, bytes |-> <<Sep, 1>>])
    @@ (2 :> Leaf(2)) @@ (3 :> Leaf(3)) @@ (4 :> Leaf(4))

Graphs == {GTest, GDiamond, GWrapper, GNullDep, GValidate}

\* A chain of four tasks: the dependencies of the head are three deep.
GChain ==
    (1 :> Inner({2}, 1, <<Sep, 1>>)) @@ (2 :> Inner({3}, 2, <<Sep, 2>>))
    @@ (3 :> Inner({4}, 3, <<Sep, 3>>)) @@ (4 :> Leaf(4))

\* The task graphs of the programs that call the delete methods of a task.
TaskGraphs == Graphs \cup {GChain}

\* The head task of every graph.
head_task == 1

RECURSIVE Reach(_, _)
Reach(g, k) ==
    {k} \cup UNION {Reach(g, d) : d \in g[k].deps}

UsedFiles(g) ==
    {g[k].target : k \in Reach(g, head_task)} \ {NullTarget}

------------------------------------------------------------------------------
VARIABLES
    tasks,              \* the task types of this program (fixed by Init)
    fs,                 \* the file system: file -> content, or NoFile
    dag,                \* DAG.nodes: node id -> Node; <<>> before DAG::new
    pc,                 \* the library call in progress, and where it is
    ops,                \* library calls started so far
    faults,             \* I/O errors injected so far
    last,               \* the call that returned last, and its Result
    prev,               \* last and faults when the current call started
    fs_at_start,        \* fs when the current call started
    to_process,         \* DAG::new: Vec<ChildData>
    processed,          \* DAG::new: HashMap<Uuid, Node>
    run_style,          \* DAG::run: run_style
    finished,           \* DAG::run: finished
    not_finished,       \* DAG::run: not_finished
    candidate_ids,      \* DAG::run: candidate_ids
    wpc,                \* DAG::run: where each closure of for_each is
    wdata,              \* DAG::run: run_no_deps's local data of each closure
    del_todo,           \* DAG::delete_all: nodes values_mut() has yet to yield
    stack,              \* Task::run / recursively_delete_data: call stack
    frontier_no,        \* iterations of DAG::run's loop so far in this run
    frontier_of,        \* node id -> iteration that dispatched it (0: none)
    initially_finished, \* finished as DAG::run first computed it
    failed_nodes,       \* nodes whose run_no_deps returned Err in this run
    computed            \* tasks whose compute_output this call has entered

vars ==
    <<tasks, fs, dag, pc, ops, faults, last, prev, fs_at_start, to_process,
      processed, run_style, finished, not_finished, candidate_ids, wpc, wdata,
      del_todo, stack, frontier_no, frontier_of, initially_finished,
      failed_nodes, computed>>

newVars == <<to_process, processed>>
runVars == <<run_style, finished, not_finished, candidate_ids, wpc, wdata>>
runHist == <<frontier_no, frontier_of, initially_finished, failed_nodes>>

------------------------------------------------------------------------------
(* Target                                                                  *)

\* NullTarget::exists / FileTarget::exists of task t's target.
Exists(t, f) ==
    /\ tasks[t].target # NullTarget
    /\ f[tasks[t].target] # NoFile

\* NullTarget::read / FileTarget::read.
Read(t, f) ==
    IF tasks[t].target = NullTarget
    THEN [ok |-> TRUE, data |-> <<>>]
    ELSE IF f[tasks[t].target] = NoFile
         THEN [ok |-> FALSE, data |-> <<>>]
         ELSE [ok |-> TRUE, data |-> f[tasks[t].target]]

\* A write that writes nothing.
WriteNothing(t, f, data) ==
    f

\* A write that appends to what the file holds.
WriteAppend(t, f, data) ==
    IF tasks[t].target = NullTarget
    THEN f
    ELSE [f EXCEPT ![tasks[t].target] = IF @ = NoFile THEN data ELSE @ \o data]

\* NullTarget::write / FileTarget::write returning Ok.
Write(t, f, data) ==
    IF tasks[t].target = NullTarget
    THEN f
    ELSE [f EXCEPT ![tasks[t].target] = data]

\* FileTarget::write returning Err: fs::write could not create the file, or
\* created it and could not write all of it.
WriteErr(t, f) ==
    IF tasks[t].target = NullTarget
    THEN {f}
    ELSE {f, [f EXCEPT ![tasks[t].target] = Partial]}

\* A delete that removes nothing.
DeleteNothing(t, f) ==
    f

\* NullTarget::delete / FileTarget::delete returning Ok.
Delete(t, f) ==
    IF tasks[t].target = NullTarget
    THEN f
    ELSE IF f[tasks[t].target] # NoFile
         THEN [f EXCEPT ![tasks[t].target] = NoFile]
         ELSE f

------------------------------------------------------------------------------
(* Task                                                                    *)

Min(S) == CHOOSE x \in S : \A y \in S : x <= y

\* A compute_output that reads the dependencies' targets in the opposite
\* order.
RECURSIVE ReadDepsLastFirst(_, _)
ReadDepsLastFirst(S, f) ==
    IF S = {}
    THEN [ok |-> TRUE, data |-> <<>>]
    ELSE LET d == CHOOSE x \in S : \A y \in S : x >= y
             r == Read(d, f)
             rest == ReadDepsLastFirst(S \ {d}, f)
         IN  IF r.ok /\ rest.ok
             THEN [ok |-> TRUE,
                   data |-> IF S = {d} THEN r.data ELSE r.data \o <<Sep>> \o rest.data]
             ELSE [ok |-> FALSE, data |-> <<>>]

\* The test tasks' compute_output: read the dependencies' targets, in the
\* order of the labels, join them with " - ", and add the task's own bytes.
RECURSIVE ReadDeps(_, _)
ReadDeps(S, f) ==
    IF S = {}
    THEN [ok |-> TRUE, data |-> <<>>]
    ELSE LET d == Min(S)
             r == Read(d, f)
             rest == ReadDeps(S \ {d}, f)
         IN  IF r.ok /\ rest.ok
             THEN [ok |-> TRUE,
                   data |-> IF S = {d} THEN r.data ELSE r.data \o <<Sep>> \o rest.data]
             ELSE [ok |-> FALSE, data |-> <<>>]

\* A compute_output that fails when validate would reject its output.
ComputeOutputValidated(t, f) ==
    LET r == IF tasks[t].reads THEN ReadDeps(tasks[t].deps, f)
                               ELSE [ok |-> TRUE, data |-> <<>>]
        data == r.data \o tasks[t].bytes
    IN  IF r.ok /\ Len(data) >= tasks[t].min_len
        THEN [ok |-> TRUE, data |-> data]
        ELSE [ok |-> FALSE, data |-> <<>>]

ComputeOutput(t, f) ==
    IF tasks[t].reads
    THEN LET r == ReadDeps(tasks[t].deps, f)
         IN  [ok |-> r.ok, data |-> IF r.ok THEN r.data \o tasks[t].bytes ELSE <<>>]
    ELSE [ok |-> TRUE, data |-> tasks[t].bytes]

\* Task::validate as tests::validation overrides it.
Validate(t, data) ==
    Len(data) >= tasks[t].min_len

\* Task::get_data.
GetData(t, f) ==
    Read(t, f)

\* An injected error is possible while the budget lasts.
MayFail ==
    IF faults < MaxFaults THEN {FALSE, TRUE} ELSE {FALSE}

Spend(fail) ==
    faults' = faults + (IF fail THEN 1 ELSE 0)

NoOp == [op |-> "none", ok |-> TRUE, why |-> "", task |-> 0, data |-> <<>>]

\* A call on task t has returned Ok(data) or Err.
ReturnedData(op, ok, why, t, data) ==
    last' = [op |-> op, ok |-> ok, why |-> why, task |-> t, data |-> data]

\* A call on task t has returned Ok(()) or Err.
Returned(op, ok, why, t) ==
    ReturnedData(op, ok, why, t, <<>>)

\* What every call does as it starts.
Begin ==
    /\ pc = "idle"
    /\ ops < MaxOps
    /\ ops' = ops + 1
    /\ prev' = [op |-> last.op, ok |-> last.ok, faults |-> faults]
    /\ fs_at_start' = fs
    /\ computed' = {}

\* The locals of an earlier DAG::run are gone when another call starts.
NoRun ==
    /\ run_style' = "LOCAL"
    /\ finished' = {}
    /\ not_finished' = {}
    /\ candidate_ids' = {}
    /\ wpc' = <<>>
    /\ wdata' = <<>>
    /\ frontier_no' = 0
    /\ frontier_of' = <<>>
    /\ initially_finished' = {}
    /\ failed_nodes' = {}

------------------------------------------------------------------------------
(* A program that calls the operations of a target itself, as               *)
(* tests::file_target and tests::dated_file_target do.  The target is the   *)
(* one get_target() of task t returns: a NullTarget, or a FileTarget or     *)
(* DatedFileTarget (the same code on another file name) on file             *)
(* tasks[t].target.                                                         *)

\* The byte strings the program writes.
Bytes == {<<>>, <<7>>, <<7, 8>>}

\* target.write(b).
TargetWrite(t, b) ==
    /\ Begin
    /\ \E fail \in (IF tasks[t].target = NullTarget THEN {FALSE} ELSE MayFail) :
        /\ Spend(fail)
        /\ IF fail
           THEN fs' \in WriteErr(t, fs)
           ELSE fs' = Write(t, fs, b)
        /\ ReturnedData("target_write", ~fail, "", t, b)
    /\ NoRun
    /\ UNCHANGED <<tasks, dag, pc, newVars, del_todo, stack>>

\* target.read().
TargetRead(t) ==
    /\ Begin
    /\ ReturnedData("target_read", Read(t, fs).ok, "", t, Read(t, fs).data)
    /\ NoRun
    /\ UNCHANGED <<tasks, fs, dag, pc, faults, newVars, del_todo, stack>>

\* target.delete(): fs::remove_file, the one call that may fail, is made
\* when exists() returned true.
TargetDelete(t) ==
    /\ Begin
    /\ \E fail \in (IF Exists(t, fs) THEN MayFail ELSE {FALSE}) :
        /\ Spend(fail)
        /\ fs' = IF fail THEN fs ELSE Delete(t, fs)
        /\ ReturnedData("target_delete", ~fail, "", t, <<>>)
    /\ NoRun
    /\ UNCHANGED <<tasks, dag, pc, newVars, del_todo, stack>>

------------------------------------------------------------------------------
(* DAG::new                                                                *)

NoParent == <<>>

\* An id that is the same for every node made from one task type.
NewIdOfTask(parent, d) ==
    <<d>>

\* Uuid::new_v4() for the child that `parent` declares under label d: a
\* value no other node has.
NewId(parent, d) ==
    Append(parent, d)

\* All orders in which a HashMap / HashSet may yield the elements of S.
Orderings(S) ==
    {s \in [1..Cardinality(S) -> S] : \A i, j \in 1..Cardinality(S) : s[i] = s[j] => i = j}

\* A make_node that gives no node a parent.
MakeNodeNoParent(task, parent_id, node_id) ==
    LET children == {[id |-> NewId(node_id, d), task |-> d, parent |-> node_id] :
                        d \in tasks[task].deps}
    IN  [node |-> [id |-> node_id,
                   task |-> task,
                   is_done |-> Exists(task, fs),
                   parent |-> NoParent,
                   children |-> {c.id : c \in children}],
         children |-> children]

\* A make_node that tells the children the node's own parent is theirs.
MakeNodeGrandparent(task, parent_id, node_id) ==
    LET children == {[id |-> NewId(node_id, d), task |-> d, parent |-> parent_id] :
                        d \in tasks[task].deps}
    IN  [node |-> [id |-> node_id,
                   task |-> task,
                   is_done |-> Exists(task, fs),
                   parent |-> parent_id,
                   children |-> {c.id : c \in children}],
         children |-> children]

\* A make_node that does not ask the target.
MakeNodeNotDone(task, parent_id, node_id) ==
    LET children == {[id |-> NewId(node_id, d), task |-> d, parent |-> node_id] :
                        d \in tasks[task].deps}
    IN  [node |-> [id |-> node_id,
                   task |-> task,
                   is_done |-> FALSE,
                   parent |-> parent_id,
                   children |-> {c.id : c \in children}],
         children |-> children]

\* A make_node that takes every node for done.
MakeNodeAllDone(task, parent_id, node_id) ==
    LET children == {[id |-> NewId(node_id, d), task |-> d, parent |-> node_id] :
                        d \in tasks[task].deps}
    IN  [node |-> [id |-> node_id,
                   task |-> task,
                   is_done |-> TRUE,
                   parent |-> parent_id,
                   children |-> {c.id : c \in children}],
         children |-> children]

\* DAG::make_node after get_target() returned Ok.
MakeNode(task, parent_id, node_id) ==
    LET children == {[id |-> NewId(node_id, d), task |-> d, parent |-> node_id] :
                        d \in tasks[task].deps}
    IN  [node |-> [id |-> node_id,
                   task |-> task,
                   is_done |-> Exists(task, fs),
                   parent |-> parent_id,
                   children |-> {c.id : c \in children}],
         children |-> children]

NewStart ==
    /\ Begin
    /\ \E fail \in MayFail :
        /\ Spend(fail)
        /\ IF fail
           THEN /\ Returned("new", FALSE, "get_target", head_task)
                /\ UNCHANGED <<pc, newVars>>
           ELSE LET nd == MakeNode(head_task, NoParent, <<head_task>>)
                IN  /\ processed' = (nd.node.id :> nd.node)
                    /\ \E order \in Orderings(nd.children) : to_process' = order
                    /\ pc' = "new"
                    /\ last' = NoOp
    /\ NoRun
    /\ UNCHANGED <<tasks, fs, dag, del_todo, stack>>

\* A DAG::new that hands out the nodes it had made when the error came.
DagAfterErrPartial(old, partial) ==
    partial

\* The DAG the caller holds after DAG::new returned Err: the ? drops
\* `processed`, no Self is made, and what the caller had is untouched.
DagAfterErr(old, partial) ==
    old

NewStep ==
    /\ pc = "new"
    /\ to_process # <<>>
    /\ LET child_data == to_process[Len(to_process)]
           rest == SubSeq(to_process, 1, Len(to_process) - 1)
       IN  \E fail \in MayFail :
            /\ Spend(fail)
            /\ IF fail
               THEN /\ Returned("new", FALSE, "get_target", child_data.task)
                    /\ dag' = DagAfterErr(dag, processed)
                    /\ processed' = <<>>
                    /\ to_process' = <<>>
                    /\ pc' = "idle"
               ELSE LET nd == MakeNode(child_data.task, child_data.parent, child_data.id)
                    IN  /\ processed' = processed @@ (nd.node.id :> nd.node)
                        /\ \E order \in Orderings(nd.children) :
                                to_process' = rest \o order
                        /\ UNCHANGED <<pc, last, dag>>
    /\ UNCHANGED <<tasks, fs, ops, prev, fs_at_start, runVars, runHist,
                   del_todo, stack, computed>>

NewReturn ==
    /\ pc = "new"
    /\ to_process = <<>>
    /\ dag' = processed
    /\ processed' = <<>>
    /\ pc' = "idle"
    /\ Returned("new", TRUE, "", head_task)
    /\ UNCHANGED <<tasks, fs, ops, faults, prev, fs_at_start, to_process,
                   runVars, runHist, del_todo, stack, computed>>

------------------------------------------------------------------------------
(* DAG::run                                                                *)

\* A get_run_candidates that does not look at the children.
get_run_candidates_no_children(nodes, pending) ==
    {id \in pending : id \in DOMAIN nodes /\ ~nodes[id].is_done}

\* A get_run_candidates that is content with one finished child.
get_run_candidates_any_child(nodes, pending) ==
    {id \in pending :
        /\ id \in DOMAIN nodes
        /\ ~nodes[id].is_done
        /\ (nodes[id].children = {} \/ nodes[id].children \ pending # {})}

\* A get_run_candidates that takes only the nodes that have no children.
get_run_candidates_leaves(nodes, pending) ==
    {id \in pending :
        /\ id \in DOMAIN nodes
        /\ ~nodes[id].is_done
        /\ nodes[id].children = {}}

\* A get_run_candidates that returns one ready node at a time.
get_run_candidates_one(nodes, pending) ==
    LET ready == {id \in pending :
                    /\ id \in DOMAIN nodes
                    /\ ~nodes[id].is_done
                    /\ nodes[id].children \cap pending = {}}
    IN  IF ready = {} THEN {} ELSE {CHOOSE id \in ready : TRUE}

\* A get_run_candidates that asks neither whether the node is done nor
\* whether it is pending.
get_run_candidates_again(nodes, pending) ==
    {id \in DOMAIN nodes : nodes[id].children \cap pending = {}}

\* A get_run_candidates that lets one pending child pass.
get_run_candidates_but_one(nodes, pending) ==
    {id \in pending :
        /\ id \in DOMAIN nodes
        /\ ~nodes[id].is_done
        /\ Cardinality(nodes[id].children \cap pending) <= 1}

\* A get_run_candidates that holds a node back while a sibling has
\* pending children.
get_run_candidates_with_siblings(nodes, pending) ==
    {id \in pending :
        /\ id \in DOMAIN nodes
        /\ ~nodes[id].is_done
        /\ nodes[id].children \cap pending = {}
        /\ \A p \in DOMAIN nodes :
            id \in nodes[p].children =>
                \A sib \in nodes[p].children \cap pending :
                    nodes[sib].children \cap pending = {}}

\* A get_run_candidates that also yields the done nodes whose target has
\* gone.
get_run_candidates_stale(nodes, pending) ==
    {id \in DOMAIN nodes :
        /\ nodes[id].children \cap pending = {}
        /\ id \in pending \/ ~Exists(nodes[id].task, fs)}

\* A get_run_candidates that yields a pending node as soon as its parent
\* is not pending.
get_run_candidates_parents_first(nodes, pending) ==
    {id \in pending :
        /\ id \in DOMAIN nodes
        /\ ~nodes[id].is_done
        /\ nodes[id].parent \notin pending}

\* DAG::get_run_candidates.
get_run_candidates(nodes, pending) ==
    {id \in pending :
        /\ id \in DOMAIN nodes
        /\ ~nodes[id].is_done
        /\ nodes[id].children \cap pending = {}}

\* A marking loop that stops after its first candidate.
MarkDoneFirstOnly(nodes, ids) ==
    LET one == CHOOSE id \in ids : TRUE
    IN  [id \in DOMAIN nodes |->
            IF id = one THEN [nodes[id] EXCEPT !.is_done = TRUE] ELSE nodes[id]]

\* A marking loop that marks only the candidates whose run_no_deps was Ok.
MarkDoneSucceeded(nodes, ids) ==
    [id \in DOMAIN nodes |->
        IF id \in ids \ failed_nodes
        THEN [nodes[id] EXCEPT !.is_done = TRUE]
        ELSE nodes[id]]

\* A marking loop that marks the parents of the candidates as well.
MarkDoneWithParents(nodes, ids) ==
    [id \in DOMAIN nodes |->
        IF id \in ids \/ nodes[id].children \cap ids # {}
        THEN [nodes[id] EXCEPT !.is_done = TRUE]
        ELSE nodes[id]]

\* A marking loop that takes the mark from the children of the candidates.
MarkDoneToggle(nodes, ids) ==
    [id \in DOMAIN nodes |->
        IF id \in ids
        THEN [nodes[id] EXCEPT !.is_done = TRUE]
        ELSE IF \E p \in ids : id \in nodes[p].children
             THEN [nodes[id] EXCEPT !.is_done = FALSE]
             ELSE nodes[id]]

\* A marking loop that marks no node.
MarkDoneNone(nodes, ids) ==
    nodes

\* The loop of DAG::run that follows the dispatch: node.is_done = true for
\* every candidate.
MarkDone(nodes, ids) ==
    [id \in DOMAIN nodes |->
        IF id \in ids THEN [nodes[id] EXCEPT !.is_done = TRUE] ELSE nodes[id]]

\* A run that computes whether or not the target exists.
NeedsComputeAlways(t, f) ==
    TRUE

\* A run that computes only for a file that does not exist.
NeedsComputeFileOnly(t, f) ==
    tasks[t].target # NullTarget /\ ~Exists(t, f)

\* Task::run and Task::run_no_deps compute when the target does not exist.
NeedsCompute(t, f) ==
    ~Exists(t, f)

\* The closures of one for_each: LOCAL runs them one after the other,
\* PARALLEL (rayon's into_par_iter) runs them on the pool's threads.
CanStep(id) ==
    \/ run_style = "PARALLEL"
    \/ \A j \in candidate_ids \ {id} : wpc[j] \in {"start", "ret"}

\* A for_each that returns as soon as one closure has returned.
ForEachReturnedAny ==
    \E id \in candidate_ids : wpc[id] = "ret"

\* for_each, of an iterator and of rayon's parallel iterator, returns when
\* every closure has returned.
ForEachReturned ==
    \A id \in candidate_ids : wpc[id] = "ret"

RunStart(style) ==
    /\ Begin
    /\ dag # <<>>
    /\ run_style' = style
    /\ finished' = {id \in DOMAIN dag : dag[id].is_done}
    /\ not_finished' = {id \in DOMAIN dag : ~dag[id].is_done}
    /\ candidate_ids' = {}
    /\ wpc' = <<>>
    /\ wdata' = <<>>
    /\ frontier_no' = 0
    /\ frontier_of' = [id \in DOMAIN dag |-> 0]
    /\ initially_finished' = finished'
    /\ failed_nodes' = {}
    /\ pc' = "run_loop"
    /\ last' = NoOp
    /\ UNCHANGED <<tasks, fs, dag, faults, newVars, del_todo, stack>>

\* while !not_finished.is_empty(): the next frontier.
RunCandidates ==
    /\ pc = "run_loop"
    /\ not_finished # {}
    /\ candidate_ids' = get_run_candidates(dag, not_finished)
    /\ wpc' = [id \in candidate_ids' |-> "start"]
    /\ wdata' = [id \in candidate_ids' |-> <<>>]
    /\ frontier_no' = frontier_no + 1
    /\ frontier_of' = [id \in DOMAIN dag |->
                          IF id \in candidate_ids' THEN frontier_no' ELSE frontier_of[id]]
    /\ pc' = "dispatch"
    /\ UNCHANGED <<tasks, fs, dag, ops, faults, last, prev, fs_at_start, newVars,
                   run_style, finished, not_finished, del_todo, stack,
                   initially_finished, failed_nodes, computed>>

\* run_no_deps of one candidate: get_target()?, target.exists()?.
WCheck(id) ==
    /\ pc = "dispatch"
    /\ wpc[id] = "start"
    /\ CanStep(id)
    /\ \E fail \in MayFail :
        /\ Spend(fail)
        /\ IF fail
           THEN /\ wpc' = [wpc EXCEPT ![id] = "ret"]
                /\ failed_nodes' = failed_nodes \cup {id}
           ELSE /\ wpc' = [wpc EXCEPT ![id] =
                              IF NeedsCompute(dag[id].task, fs) THEN "compute" ELSE "ret"]
                /\ UNCHANGED failed_nodes
    /\ UNCHANGED <<tasks, fs, dag, pc, ops, last, prev, fs_at_start, newVars,
                   run_style, finished, not_finished, candidate_ids, wdata,
                   del_todo, stack, frontier_no, frontier_of,
                   initially_finished, computed>>

\* run_no_deps of one candidate: self.compute_output()?.
WCompute(id) ==
    /\ pc = "dispatch"
    /\ wpc[id] = "compute"
    /\ CanStep(id)
    /\ computed' = computed \cup {dag[id].task}
    /\ \E fail \in MayFail :
        LET r == ComputeOutput(dag[id].task, fs)
        IN  /\ Spend(fail)
            /\ IF fail \/ ~r.ok
               THEN /\ wpc' = [wpc EXCEPT ![id] = "ret"]
                    /\ failed_nodes' = failed_nodes \cup {id}
                    /\ UNCHANGED wdata
               ELSE /\ wpc' = [wpc EXCEPT ![id] = "write"]
                    /\ wdata' = [wdata EXCEPT ![id] = r.data]
                    /\ UNCHANGED failed_nodes
    /\ UNCHANGED <<tasks, fs, dag, pc, ops, last, prev, fs_at_start, newVars,
                   run_style, finished, not_finished, candidate_ids,
                   del_todo, stack, frontier_no, frontier_of, initially_finished>>

\* run_no_deps of one candidate: target.write(&data)?.
WWrite(id) ==
    /\ pc = "dispatch"
    /\ wpc[id] = "write"
    /\ CanStep(id)
    /\ \E fail \in MayFail :
        /\ Spend(fail)
        /\ IF fail
           THEN /\ fs' \in WriteErr(dag[id].task, fs)
                /\ failed_nodes' = failed_nodes \cup {id}
           ELSE /\ fs' = Write(dag[id].task, fs, wdata[id])
                /\ UNCHANGED failed_nodes
    /\ wpc' = [wpc EXCEPT ![id] = "ret"]
    /\ wdata' = [wdata EXCEPT ![id] = <<>>]
    /\ UNCHANGED <<tasks, dag, pc, ops, last, prev, fs_at_start, newVars,
                   run_style, finished, not_finished, candidate_ids,
                   del_todo, stack, frontier_no, frontier_of,
                   initially_finished, computed>>

\* for_each has returned: for id in candidate_ids { node.is_done = true; ... }.
RunMark ==
    /\ pc = "dispatch"
    /\ ForEachReturned
    /\ dag' = MarkDone(dag, candidate_ids)
    /\ finished' = finished \cup candidate_ids
    /\ not_finished' = not_finished \ candidate_ids
    /\ pc' = "run_loop"
    /\ UNCHANGED <<tasks, fs, ops, faults, last, prev, fs_at_start, newVars,
                   run_style, candidate_ids, wpc, wdata, del_todo, stack,
                   runHist, computed>>

\* The loop has ended: Ok(()).
RunReturn ==
    /\ pc = "run_loop"
    /\ not_finished = {}
    /\ pc' = "idle"
    /\ Returned("run", TRUE, "", head_task)
    /\ UNCHANGED <<tasks, fs, dag, ops, faults, prev, fs_at_start, newVars,
                   runVars, del_todo, stack, runHist, computed>>

------------------------------------------------------------------------------
(* DAG::delete_all                                                         *)

\* A delete_all that leaves is_done as it was.
ResetNodeKeepsDone(nodes, id) ==
    nodes

\* A delete_all that resets every node as soon as one delete_data()
\* returned Ok.
ResetNodeAll(nodes, id) ==
    [n \in DOMAIN nodes |-> [nodes[n] EXCEPT !.is_done = FALSE]]

\* The body of delete_all's loop after delete_data() returned Ok.
ResetNode(nodes, id) ==
    [nodes EXCEPT ![id].is_done = FALSE]

DeleteAllStart ==
    /\ Begin
    /\ dag # <<>>
    /\ del_todo' = DOMAIN dag
    /\ pc' = "delete_all"
    /\ last' = NoOp
    /\ NoRun
    /\ UNCHANGED <<tasks, fs, dag, faults, newVars, stack>>

\* One iteration: node.task.delete_data()?; node.is_done = false.
DeleteAllStep ==
    /\ pc = "delete_all"
    /\ \E id \in del_todo :
        \E fail \in MayFail :
            /\ Spend(fail)
            /\ IF fail
               THEN /\ Returned("delete_all", FALSE, "delete_data", dag[id].task)
                    /\ del_todo' = {}
                    /\ pc' = "idle"
                    /\ UNCHANGED <<fs, dag>>
               ELSE /\ fs' = Delete(dag[id].task, fs)
                    /\ dag' = ResetNode(dag, id)
                    /\ del_todo' = del_todo \ {id}
                    /\ UNCHANGED <<pc, last>>
    /\ UNCHANGED <<tasks, ops, prev, fs_at_start, newVars, runVars, stack,
                   runHist, computed>>

DeleteAllReturn ==
    /\ pc = "delete_all"
    /\ del_todo = {}
    /\ pc' = "idle"
    /\ Returned("delete_all", TRUE, "", head_task)
    /\ UNCHANGED <<tasks, fs, dag, ops, faults, prev, fs_at_start, newVars,
                   runVars, del_todo, stack, runHist, computed>>

------------------------------------------------------------------------------
(* Task::run                                                               *)

\* The injected errors a step may choose among.
Faults(S) ==
    {"none"} \cup (IF faults < MaxFaults THEN S ELSE {})

SpendIf(fault) ==
    faults' = faults + (IF fault = "none" THEN 0 ELSE 1)

\* What the target of t holds.
TargetState(t, f) ==
    IF tasks[t].target = NullTarget THEN NoFile ELSE f[tasks[t].target]

\* A call of run or recursively_delete_data on task t: the dependencies its
\* loop has yet to visit, where it is, what its target held when called.
Frame(t, todo, phase) ==
    [task |-> t, todo |-> todo, phase |-> phase, pre |-> TargetState(t, fs)]

Top == stack[Len(stack)]

Pop == SubSeq(stack, 1, Len(stack) - 1)

SetTop(fr) == [stack EXCEPT ![Len(stack)] = fr]

\* A caller that takes note of the Err of a call and goes on.
AbortSwallowed(op, why, t) ==
    /\ Returned(op, FALSE, why, t)
    /\ IF Len(stack) = 1
       THEN stack' = <<>> /\ pc' = "idle"
       ELSE stack' = Pop /\ UNCHANGED pc

\* A ? has propagated an Err through every caller.
Abort(op, why, t) ==
    /\ stack' = <<>>
    /\ pc' = "idle"
    /\ Returned(op, FALSE, why, t)

\* The innermost call returns Ok(()).
ReturnOk(op) ==
    /\ stack' = Pop
    /\ IF Len(stack) = 1
       THEN /\ pc' = "idle"
            /\ Returned(op, TRUE, "", Top.task)
       ELSE UNCHANGED <<pc, last>>

\* A run that validates and never writes.
RunBodyNoWrite(t, f, fault) ==
    LET r == ComputeOutput(t, f)
    IN  IF fault = "compute" \/ ~r.ok
        THEN {[fs |-> f, ok |-> FALSE, why |-> "compute"]}
        ELSE IF ~Validate(t, r.data)
        THEN {[fs |-> f, ok |-> FALSE, why |-> "validate"]}
        ELSE {[fs |-> f, ok |-> TRUE, why |-> ""]}

\* A run that writes before it validates.
RunBodyWriteFirst(t, f, fault) ==
    LET r == ComputeOutput(t, f)
    IN  IF fault = "compute" \/ ~r.ok
        THEN {[fs |-> f, ok |-> FALSE, why |-> "compute"]}
        ELSE IF fault = "write"
        THEN {[fs |-> g, ok |-> FALSE, why |-> "write"] : g \in WriteErr(t, f)}
        ELSE IF ~Validate(t, r.data)
        THEN {[fs |-> Write(t, f, r.data), ok |-> FALSE, why |-> "validate"]}
        ELSE {[fs |-> Write(t, f, r.data), ok |-> TRUE, why |-> ""]}

\* Task::run once the target was found absent: compute_output()?,
\* validate(&data)?, target.write(&data)?.  The file systems and Results
\* it may end with.
RunBody(t, f, fault) ==
    LET r == ComputeOutput(t, f)
    IN  IF fault = "compute" \/ ~r.ok
        THEN {[fs |-> f, ok |-> FALSE, why |-> "compute"]}
        ELSE IF ~Validate(t, r.data)
        THEN {[fs |-> f, ok |-> FALSE, why |-> "validate"]}
        ELSE IF fault = "write"
        THEN {[fs |-> g, ok |-> FALSE, why |-> "write"] : g \in WriteErr(t, f)}
        ELSE {[fs |-> Write(t, f, r.data), ok |-> TRUE, why |-> ""]}

\* head.run(): self.get_dep_tasks()?.
TaskRunStart ==
    /\ Begin
    /\ \E fault \in Faults({"get_dep_tasks"}) :
        /\ SpendIf(fault)
        /\ IF fault = "none"
           THEN /\ stack' = <<Frame(head_task, tasks[head_task].deps, "deps")>>
                /\ pc' = "task_run"
                /\ last' = NoOp
           ELSE /\ Returned("task_run", FALSE, fault, head_task)
                /\ UNCHANGED <<stack, pc>>
    /\ NoRun
    /\ UNCHANGED <<tasks, fs, dag, newVars, del_todo>>

\* for (_, dep) in ... { dep.run()?; }: the next dependency, in the
\* HashMap's order, and its own get_dep_tasks()?.
TaskRunCallDep ==
    /\ pc = "task_run"
    /\ Top.phase = "deps"
    /\ \E d \in Top.todo :
        \E fault \in Faults({"get_dep_tasks"}) :
            /\ SpendIf(fault)
            /\ IF fault = "none"
               THEN /\ stack' = Append(SetTop([Top EXCEPT !.todo = @ \ {d}]),
                                       Frame(d, tasks[d].deps, "deps"))
                    /\ UNCHANGED <<pc, last>>
               ELSE Abort("task_run", fault, d)
    /\ UNCHANGED <<tasks, fs, dag, ops, prev, fs_at_start, newVars, runVars,
                   del_todo, runHist, computed>>

\* let target = self.get_target()?; if !target.exists()? { ... } else { Ok }.
TaskRunCheck ==
    /\ pc = "task_run"
    /\ Top.phase = "deps"
    /\ Top.todo = {}
    /\ \E fault \in Faults({"get_target"}) :
        /\ SpendIf(fault)
        /\ IF fault # "none"
           THEN Abort("task_run", fault, Top.task)
           ELSE IF NeedsCompute(Top.task, fs)
           THEN /\ stack' = SetTop([Top EXCEPT !.phase = "compute"])
                /\ UNCHANGED <<pc, last>>
           ELSE ReturnOk("task_run")
    /\ UNCHANGED <<tasks, fs, dag, ops, prev, fs_at_start, newVars, runVars,
                   del_todo, runHist, computed>>

\* compute_output is entered; validate and write follow.
TaskRunCompute ==
    /\ pc = "task_run"
    /\ Top.phase = "compute"
    /\ computed' = computed \cup {Top.task}
    /\ \E fault \in Faults({"compute", "write"}) :
        \E out \in RunBody(Top.task, fs, fault) :
            /\ SpendIf(fault)
            /\ fs' = out.fs
            /\ IF out.ok
               THEN ReturnOk("task_run")
               ELSE Abort("task_run", out.why, Top.task)
    /\ UNCHANGED <<tasks, dag, ops, prev, fs_at_start, newVars, runVars,
                   del_todo, runHist>>

------------------------------------------------------------------------------
(* Task::recursively_delete_data                                           *)

\* A recursively_delete_data that goes one level deep, as delete_deps does.
RDelTodoDirectOnly(t) ==
    IF t = head_task THEN tasks[t].deps ELSE {}

\* The dependencies recursively_delete_data of task t recurses into.
RDelTodo(t) ==
    tasks[t].deps

RDelStart ==
    /\ Begin
    /\ stack' = <<Frame(head_task, {}, "self")>>
    /\ pc' = "rdel"
    /\ last' = NoOp
    /\ NoRun
    /\ UNCHANGED <<tasks, fs, dag, faults, newVars, del_todo>>

\* self.delete_data()?, then self.get_dep_tasks()?.
RDelSelf ==
    /\ pc = "rdel"
    /\ Top.phase = "self"
    /\ \E fault \in Faults({"delete_data", "get_dep_tasks"}) :
        /\ SpendIf(fault)
        /\ fs' = IF fault = "delete_data" THEN fs ELSE Delete(Top.task, fs)
        /\ IF fault = "none"
           THEN /\ stack' = SetTop([Top EXCEPT !.todo = RDelTodo(Top.task),
                                              !.phase = "deps"])
                /\ UNCHANGED <<pc, last>>
           ELSE Abort("rdel", fault, Top.task)
    /\ UNCHANGED <<tasks, dag, ops, prev, fs_at_start, newVars, runVars,
                   del_todo, runHist, computed>>

\* for (_, dep) in ... { dep.recursively_delete_data()?; }.
RDelCallDep ==
    /\ pc = "rdel"
    /\ Top.phase = "deps"
    /\ \E d \in Top.todo :
        stack' = Append(SetTop([Top EXCEPT !.todo = @ \ {d}]), Frame(d, {}, "self"))
    /\ UNCHANGED <<tasks, fs, dag, pc, ops, faults, last, prev, fs_at_start,
                   newVars, runVars, del_todo, runHist, computed>>

RDelReturn ==
    /\ pc = "rdel"
    /\ Top.phase = "deps"
    /\ Top.todo = {}
    /\ ReturnOk("rdel")
    /\ UNCHANGED <<tasks, fs, dag, ops, faults, prev, fs_at_start, newVars,
                   runVars, del_todo, runHist, computed>>

------------------------------------------------------------------------------
(* Task::delete_deps (task_lib.rs)                                         *)

\* A delete_deps that deletes the targets of every transitive dependency.
DeleteDepsTodoAll(t) ==
    Reach(tasks, t) \ {t}

\* The targets get_dep_targets() returns: those of get_dep_tasks().
DeleteDepsTodo(t) ==
    tasks[t].deps

\* t.delete_deps(): self.get_dep_targets()?, which calls get_dep_tasks()?
\* and get_target()? of every dependency.
DeleteDepsStart(t) ==
    /\ Begin
    /\ \E fault \in Faults({"get_dep_tasks"}
                         \cup (IF tasks[t].deps # {} THEN {"get_target"} ELSE {})) :
        /\ SpendIf(fault)
        /\ IF fault = "none"
           THEN /\ stack' = <<Frame(t, DeleteDepsTodo(t), "delete_deps")>>
                /\ pc' = "delete_deps"
                /\ last' = NoOp
           ELSE /\ Returned("delete_deps", FALSE, fault, t)
                /\ UNCHANGED <<stack, pc>>
    /\ NoRun
    /\ UNCHANGED <<tasks, fs, dag, newVars, del_todo>>

\* for (_, dep) in ... { dep.delete()?; }: the next target, in the
\* HashMap's order; fs::remove_file is called when the file exists.
DeleteDepsStep ==
    /\ pc = "delete_deps"
    /\ \E d \in Top.todo :
        \E fault \in (IF Exists(d, fs) THEN Faults({"delete"}) ELSE {"none"}) :
            /\ SpendIf(fault)
            /\ IF fault = "none"
               THEN /\ fs' = Delete(d, fs)
                    /\ stack' = SetTop([Top EXCEPT !.todo = @ \ {d}])
                    /\ UNCHANGED <<pc, last>>
               ELSE /\ Abort("delete_deps", fault, Top.task)
                    /\ UNCHANGED fs
    /\ UNCHANGED <<tasks, dag, ops, prev, fs_at_start, newVars, runVars,
                   del_todo, runHist, computed>>

DeleteDepsReturn ==
    /\ pc = "delete_deps"
    /\ Top.todo = {}
    /\ ReturnOk("delete_deps")
    /\ UNCHANGED <<tasks, fs, dag, ops, faults, prev, fs_at_start, newVars,
                   runVars, del_todo, runHist, computed>>

------------------------------------------------------------------------------
(* Task::recursively_delete_deps (lib.rs), with lib.rs's delete_deps       *)

\* The targets that dep.delete_deps() deletes: those of dep's
\* get_dep_tasks().
LibDeleteDepsTodo(d) ==
    tasks[d].deps

\* head.recursively_delete_deps(): get_dep_tasks() of lib.rs cannot fail.
LibRDelStart ==
    /\ Begin
    /\ stack' = <<Frame(head_task, tasks[head_task].deps, "deps")>>
    /\ pc' = "lib_rdel"
    /\ last' = NoOp
    /\ NoRun
    /\ UNCHANGED <<tasks, fs, dag, faults, newVars, del_todo>>

\* dep.get_target()?.delete()?, and dep.delete_deps() is entered: its
\* get_dep_targets()? calls get_target()? of every dependency of dep.
LibRDelDep ==
    /\ pc = "lib_rdel"
    /\ Top.phase = "deps"
    /\ \E d \in Top.todo :
        \E fault \in Faults({"get_target"}
                            \cup (IF Exists(d, fs) THEN {"delete"} ELSE {})
                            \cup (IF tasks[d].deps # {} THEN {"get_dep_targets"} ELSE {})) :
            /\ SpendIf(fault)
            /\ fs' = IF fault \in {"get_target", "delete"} THEN fs ELSE Delete(d, fs)
            /\ IF fault = "none"
               THEN /\ stack' = Append(SetTop([Top EXCEPT !.todo = @ \ {d}]),
                                       Frame(d, LibDeleteDepsTodo(d), "delete_deps"))
                    /\ UNCHANGED <<pc, last>>
               ELSE Abort("lib_rdel", fault, d)
    /\ UNCHANGED <<tasks, dag, ops, prev, fs_at_start, newVars, runVars,
                   del_todo, runHist, computed>>

\* The loop of dep.delete_deps(): dep.delete()? of the next target.
LibDeleteDepsStep ==
    /\ pc = "lib_rdel"
    /\ Top.phase = "delete_deps"
    /\ \E g \in Top.todo :
        \E fault \in (IF Exists(g, fs) THEN Faults({"delete"}) ELSE {"none"}) :
            /\ SpendIf(fault)
            /\ IF fault = "none"
               THEN /\ fs' = Delete(g, fs)
                    /\ stack' = SetTop([Top EXCEPT !.todo = @ \ {g}])
                    /\ UNCHANGED <<pc, last>>
               ELSE /\ Abort("lib_rdel", fault, g)
                    /\ UNCHANGED fs
    /\ UNCHANGED <<tasks, dag, ops, prev, fs_at_start, newVars, runVars,
                   del_todo, runHist, computed>>

\* delete_deps, or recursively_delete_deps itself, returns Ok(()).
LibRDelReturn ==
    /\ pc = "lib_rdel"
    /\ Top.todo = {}
    /\ ReturnOk("lib_rdel")
    /\ UNCHANGED <<tasks, fs, dag, ops, faults, prev, fs_at_start, newVars,
                   runVars, del_todo, runHist, computed>>

------------------------------------------------------------------------------
Init ==
    /\ tasks \in Graphs
    /\ fs \in {f \in [Files -> {NoFile, Stale}] :
                 \A x \in Files \ UsedFiles(tasks) : f[x] = NoFile}
    /\ dag = <<>>
    /\ pc = "idle"
    /\ ops = 0
    /\ faults = 0
    /\ last = NoOp
    /\ prev = [op |-> "none", ok |-> TRUE, faults |-> 0]
    /\ fs_at_start = fs
    /\ to_process = <<>>
    /\ processed = <<>>
    /\ run_style = "LOCAL"
    /\ finished = {}
    /\ not_finished = {}
    /\ candidate_ids = {}
    /\ wpc = <<>>
    /\ wdata = <<>>
    /\ del_todo = {}
    /\ stack = <<>>
    /\ frontier_no = 0
    /\ frontier_of = <<>>
    /\ initially_finished = {}
    /\ failed_nodes = {}
    /\ computed = {}

Next ==
    \/ NewStart
    \/ NewStep
    \/ NewReturn
    \/ \E style \in {"LOCAL", "PARALLEL"} : RunStart(style)
    \/ RunCandidates
    \/ \E id \in candidate_ids : WCheck(id)
    \/ \E id \in candidate_ids : WCompute(id)
    \/ \E id \in candidate_ids : WWrite(id)
    \/ RunMark
    \/ RunReturn
    \/ DeleteAllStart
    \/ DeleteAllStep
    \/ DeleteAllReturn
    \/ TaskRunStart
    \/ TaskRunCallDep
    \/ TaskRunCheck
    \/ TaskRunCompute
    \/ RDelStart
    \/ RDelSelf
    \/ RDelCallDep
    \/ RDelReturn

Spec == Init /\ [][Next]_vars

\* The program of the target tests: only calls of target operations.
TargetNext ==
    \/ \E t \in Kinds : \E b \in Bytes : TargetWrite(t, b)
    \/ \E t \in Kinds : TargetRead(t)
    \/ \E t \in Kinds : TargetDelete(t)

TargetSpec == Init /\ [][TargetNext]_vars

\* DAG::run runs to its end: the thread that called it executes the loop,
\* and every closure handed to for_each is run by that thread or by a
\* thread of rayon's pool.
RunNext ==
    \/ RunCandidates
    \/ \E id \in candidate_ids : WCheck(id)
    \/ \E id \in candidate_ids : WCompute(id)
    \/ \E id \in candidate_ids : WWrite(id)
    \/ RunMark
    \/ RunReturn

\* The programs that use the scheduler only: DAG::new, run, delete_all.
DagNext ==
    \/ NewStart
    \/ NewStep
    \/ NewReturn
    \/ \E style \in {"LOCAL", "PARALLEL"} : RunStart(style)
    \/ RunNext
    \/ DeleteAllStart
    \/ DeleteAllStep
    \/ DeleteAllReturn

FairSpec == Init /\ [][DagNext]_vars /\ WF_vars(RunNext)

\* The programs that call the delete methods of a task, on a directory
\* with or without cached targets.
TaskInit ==
    /\ tasks \in TaskGraphs
    /\ fs \in {f \in [Files -> {NoFile, Stale}] :
                 \A x \in Files \ UsedFiles(tasks) : f[x] = NoFile}
    /\ dag = <<>>
    /\ pc = "idle"
    /\ ops = 0
    /\ faults = 0
    /\ last = NoOp
    /\ prev = [op |-> "none", ok |-> TRUE, faults |-> 0]
    /\ fs_at_start = fs
    /\ to_process = <<>>
    /\ processed = <<>>
    /\ run_style = "LOCAL"
    /\ finished = {}
    /\ not_finished = {}
    /\ candidate_ids = {}
    /\ wpc = <<>>
    /\ wdata = <<>>
    /\ del_todo = {}
    /\ stack = <<>>
    /\ frontier_no = 0
    /\ frontier_of = <<>>
    /\ initially_finished = {}
    /\ failed_nodes = {}
    /\ computed = {}

DeleteNext ==
    \/ \E t \in Kinds : DeleteDepsStart(t)
    \/ DeleteDepsStep
    \/ DeleteDepsReturn
    \/ LibRDelStart
    \/ LibRDelDep
    \/ LibDeleteDepsStep
    \/ LibRDelReturn
    \/ RDelStart
    \/ RDelSelf
    \/ RDelCallDep
    \/ RDelReturn

DeleteSpec == TaskInit /\ [][DeleteNext]_vars

------------------------------------------------------------------------------
(* Properties                                                              *)

RunReturnedOk == last.op = "run" /\ last.ok

InRun == pc \in {"run_loop", "dispatch"} \/ last.op = "run"

DownwardClosed(nodes) ==
    \A id \in DOMAIN nodes :
        nodes[id].is_done => \A c \in nodes[id].children : nodes[c].is_done

\* C1: when DAG.run returns Ok, under LOCAL or PARALLEL and from any mix of
\* existing and absent targets, every node of the DAG has is_done = true.
C1_AllDoneAfterRun ==
    RunReturnedOk => \A id \in DOMAIN dag : dag[id].is_done

C1_Witness ==
    /\ RunReturnedOk
    /\ run_style = "PARALLEL"
    /\ initially_finished # {}
    /\ frontier_no >= 2

\* C2, as stated: every child of a node dispatched in frontier k was
\* dispatched in a frontier before k.
C2_ChildrenDispatchedBefore ==
    \A id \in DOMAIN frontier_of :
        frontier_of[id] > 0 =>
            \A c \in dag[id].children :
                frontier_of[c] > 0 /\ frontier_of[c] < frontier_of[id]

\* C2, amended: every child of a node dispatched in frontier k was
\* dispatched in a frontier before k, or was already done when the run
\* started (its target existed at DAG::new) and is never dispatched.
C2_ChildrenDispatchedBeforeOrDone ==
    \A id \in DOMAIN frontier_of :
        frontier_of[id] > 0 =>
            \A c \in dag[id].children :
                \/ frontier_of[c] > 0 /\ frontier_of[c] < frontier_of[id]
                \/ c \in initially_finished /\ frontier_of[c] = 0

C2_Witness ==
    \E id \in DOMAIN frontier_of :
        /\ frontier_of[id] = 2
        /\ \E c1, c2 \in dag[id].children :
            /\ c1 \in initially_finished
            /\ frontier_of[c2] = 1

\* C3, as stated: right after DAG::new, after every frontier of DAG.run and
\* after delete_all, a done node has only done children.
C3_DoneDownwardClosed ==
    (\/ last.op = "new" /\ last.ok
     \/ pc = "run_loop"
     \/ last.op = "delete_all" /\ last.ok)
    => DownwardClosed(dag)

ClosedAtRunStart ==
    \A id \in initially_finished : dag[id].children \subseteq initially_finished

\* C3, amended: DAG.run keeps the done set downward-closed (if it was when
\* the run started, it is after every frontier and when the run returns),
\* and it is after a delete_all that returned Ok; DAG::new does not make it
\* so, as is_done is the existence of each node's own target.
C3_RunKeepsDownwardClosed ==
    /\ (InRun /\ ClosedAtRunStart) => DownwardClosed(dag)
    /\ (last.op = "delete_all" /\ last.ok) => DownwardClosed(dag)

C3_Witness ==
    /\ pc = "run_loop"
    /\ frontier_no = 2
    /\ not_finished # {}
    /\ ClosedAtRunStart
    /\ initially_finished # {}

FileBacked(t) == tasks[t].target # NullTarget

\* C4: the target of every direct dependency D of T exists when T's
\* compute_output is entered, by Task::run and by DAG.run's run_no_deps
\* (stated for the dependencies that have a file target: a NullTarget
\* never exists).
C4_DepTargetsExistAtCompute ==
    /\ (pc = "task_run" /\ Top.phase = "compute") =>
            \A d \in tasks[Top.task].deps : FileBacked(d) => Exists(d, fs)
    /\ pc = "dispatch" =>
            \A id \in candidate_ids :
                wpc[id] = "compute" =>
                    \A c \in dag[id].children :
                        FileBacked(dag[c].task) => Exists(dag[c].task, fs)

\* C5: a Task::run called while its target exists never enters
\* compute_output and leaves the target's content as it was.
C5_RunReusesCache ==
    pc = "task_run" =>
        \A i \in 1..Len(stack) :
            stack[i].pre # NoFile =>
                /\ stack[i].phase # "compute"
                /\ TargetState(stack[i].task, fs) = stack[i].pre

\* C5: a run_no_deps called while its target exists returns at once: no
\* compute_output, no write.
C5_RunNoDepsReusesCache ==
    \A id \in candidate_ids :
        (pc = "dispatch" /\ wpc[id] = "start" /\ wpc'[id] # "start"
            /\ Exists(dag[id].task, fs))
        => (wpc'[id] = "ret" /\ fs' = fs /\ computed' = computed)

\* C5: cache reuse, for Task::run and for run_no_deps.
C5_CacheReuse ==
    []C5_RunReusesCache /\ [][C5_RunNoDepsReusesCache]_vars

C5_Witness ==
    /\ last.op = "task_run" /\ last.ok
    /\ Exists(head_task, fs_at_start)
    /\ head_task \notin computed
    /\ computed # {}

SecondRun == last.op = "task_run" /\ prev.op = "task_run" /\ prev.ok

SameDataNoCompute ==
    /\ head_task \notin computed
    /\ GetData(head_task, fs) = GetData(head_task, fs_at_start)

\* C6, as stated: for any task T, a T.run() that follows a T.run() that
\* returned Ok does not enter T's compute_output, and get_data returns the
\* same bytes after both.
C6_SecondRunIdempotent ==
    SecondRun => SameDataNoCompute

\* C6, amended: the same for any task T whose target is not a NullTarget
\* (a NullTarget never exists, so T's compute_output is entered by every
\* run).
C6_SecondRunIdempotentFile ==
    (SecondRun /\ FileBacked(head_task)) => SameDataNoCompute

C6_Witness ==
    /\ SecondRun
    /\ last.ok
    /\ FileBacked(head_task)
    /\ GetData(head_task, fs).ok
    /\ computed # {}

\* C7: when validate rejects what compute_output returned, Task::run
\* returns Err and writes nothing: the file system is as it was when
\* compute_output was entered.
C7_Step ==
    (/\ pc = "task_run"
     /\ Top.phase = "compute"
     /\ ComputeOutput(Top.task, fs).ok
     /\ ~Validate(Top.task, ComputeOutput(Top.task, fs).data)
     /\ faults' = faults)
    => (/\ fs' = fs
        /\ pc' = "idle"
        /\ last'.op = "task_run"
        /\ ~last'.ok)

C7_ValidateFailureWritesNothing ==
    [][C7_Step]_vars

C7_Witness ==
    /\ last.op = "task_run"
    /\ last.why = "validate"
    /\ ~last.ok
    /\ last.task \in computed
    /\ Cardinality(computed) >= 2

\* C8: when recursively_delete_data returns Ok, the target of the task and
\* of every transitive dependency does not exist.
C8_RecursiveDeleteClosure ==
    (last.op = "rdel" /\ last.ok) =>
        \A t \in Reach(tasks, head_task) : ~Exists(t, fs)

C8_Witness ==
    /\ last.op = "rdel" /\ last.ok
    /\ \E t \in Reach(tasks, head_task) :
        /\ t \notin tasks[head_task].deps \cup {head_task}
        /\ Exists(t, fs_at_start)

\* C9: when delete_all returns Ok, no node is done and no node's target
\* exists.
C9_DeleteAllResets ==
    (last.op = "delete_all" /\ last.ok) =>
        \A id \in DOMAIN dag :
            ~dag[id].is_done /\ ~Exists(dag[id].task, fs)

C9_Witness ==
    /\ last.op = "delete_all" /\ last.ok
    /\ prev.op = "run" /\ prev.ok
    /\ \E id \in DOMAIN dag : Exists(dag[id].task, fs_at_start)

\* C10: an Err of run_no_deps does not stop DAG.run: the node is marked
\* done with its frontier, every node that was pending is dispatched all
\* the same, and run returns Ok.
C10_FailureIsSwallowed ==
    /\ pc = "run_loop" =>
            \A id \in failed_nodes : id \in finished /\ dag[id].is_done
    /\ last.op = "run" =>
            /\ last.ok
            /\ \A id \in DOMAIN dag \ initially_finished :
                frontier_of[id] > 0 /\ dag[id].is_done

C10_Witness ==
    /\ RunReturnedOk
    /\ \E id \in failed_nodes :
        /\ dag[id].parent # NoParent
        /\ frontier_of[dag[id].parent] > frontier_of[id]
        /\ dag[dag[id].parent].is_done

InRunCall == pc \in {"run_loop", "dispatch"}

C11_FrontierNonEmpty ==
    pc = "dispatch" => candidate_ids # {}

C11_PendingShrinks ==
    (pc = "dispatch" /\ pc' = "run_loop") =>
        (not_finished' \subseteq not_finished /\ not_finished' # not_finished)

\* C11: DAG.run terminates on every (acyclic) DAG: each frontier computed
\* while nodes are pending is non-empty, each iteration makes the pending
\* set strictly smaller, and, every dispatched task returning, the run
\* returns.
C11_RunTerminates ==
    /\ []C11_FrontierNonEmpty
    /\ [][C11_PendingShrinks]_vars
    /\ InRunCall ~> (pc = "idle" /\ last.op = "run")

C11_Witness ==
    /\ RunReturnedOk
    /\ run_style = "LOCAL"
    /\ frontier_no = 3
    /\ failed_nodes # {}

Max(S) == CHOOSE x \in S : \A y \in S : x >= y

\* The number of nodes on the longest path from task k down to a leaf.
RECURSIVE LongestPath(_, _)
LongestPath(g, k) ==
    1 + Max({0} \cup {LongestPath(g, d) : d \in g[k].deps})

\* C12: one DAG.run executes at most as many frontier iterations as there
\* are nodes on the longest root-to-leaf path, whatever nodes were done
\* when it started.
C12_IterationBound ==
    InRun => frontier_no <= LongestPath(tasks, head_task)

C12_Witness ==
    /\ RunReturnedOk
    /\ frontier_no = LongestPath(tasks, head_task)
    /\ frontier_no = 3
    /\ initially_finished # {}

WriteReturnedOk == last.op = "target_write" /\ last.ok

\* C13, as stated: for every target of the library, exists() is true after
\* a write that returned Ok.
C13_WriteThenExists ==
    WriteReturnedOk => Exists(last.task, fs)

\* C13, amended: after a write that returned Ok, exists() is true for a
\* FileTarget and a DatedFileTarget, and false for a NullTarget, whose
\* write is a no-op and whose exists() is always false.
C13_WriteThenExistsFile ==
    WriteReturnedOk => (Exists(last.task, fs) <=> FileBacked(last.task))

C13_Witness ==
    /\ WriteReturnedOk
    /\ FileBacked(last.task)
    /\ ~Exists(last.task, fs_at_start)
    /\ Exists(last.task, fs)

\* C14, as stated: for every target of the library and every byte string
\* b, read() returns exactly b after a write(b) that returned Ok.
C14_WriteThenRead ==
    WriteReturnedOk => Read(last.task, fs) = [ok |-> TRUE, data |-> last.data]

\* C14, amended: after a write(b) that returned Ok, read() returns exactly
\* b for a FileTarget and a DatedFileTarget, whatever the file held before
\* (a second write overwrites the first), and the empty byte vector for a
\* NullTarget.
C14_WriteThenReadFile ==
    WriteReturnedOk =>
        Read(last.task, fs) =
            [ok |-> TRUE, data |-> IF FileBacked(last.task) THEN last.data ELSE <<>>]

C14_Witness ==
    /\ WriteReturnedOk
    /\ prev.op = "target_write" /\ prev.ok
    /\ faults = 0
    /\ FileBacked(last.task)
    /\ TargetState(last.task, fs_at_start) \in Bytes \ {last.data}
    /\ last.data # <<>>
    /\ Read(last.task, fs).data = last.data

\* C15: delete() of a target that does not exist returns Ok and changes
\* nothing; a delete() fails only when fs::remove_file of an existing file
\* does; and after a delete() that returned Ok, exists() is false, whether
\* the target existed (write(b); delete()) or not.
C15_DeleteThenAbsent ==
    last.op = "target_delete" =>
        /\ ~Exists(last.task, fs_at_start) => (last.ok /\ fs = fs_at_start)
        /\ last.ok => ~Exists(last.task, fs)
        /\ last.ok => \A x \in Files \ {tasks[last.task].target} : fs[x] = fs_at_start[x]
        /\ ~last.ok => fs = fs_at_start

C15_Witness ==
    /\ last.op = "target_delete" /\ last.ok
    /\ prev.op = "target_write" /\ prev.ok
    /\ Exists(last.task, fs_at_start)
    /\ ~Exists(last.task, fs)

\* The nodes of the DAG whose task has a NullTarget.
NullNodes == {id \in DOMAIN dag : ~FileBacked(dag[id].task)}

TaskRunRerunsNull ==
    (last.op = "task_run" /\ last.ok) =>
        \A t \in Reach(tasks, head_task) : ~FileBacked(t) => t \in computed

\* C16, as stated: every Task::run and every DAG.run (here: without any
\* I/O error) enters the compute_output of every task that has a
\* NullTarget.
C16_NullTargetAlwaysRerun ==
    /\ TaskRunRerunsNull
    /\ (last.op = "run" /\ faults = 0) =>
            \A id \in NullNodes : dag[id].task \in computed

\* C16, amended: every Task::run that returns Ok enters the compute_output
\* of every task with a NullTarget; DAG::new leaves such a node not done,
\* and a DAG.run that finds it not done (the first run after DAG::new or
\* delete_all) dispatches it and enters its compute_output unless its
\* run_no_deps fails; a DAG.run that finds it done (a second run on the
\* same DAG) does not dispatch it.
C16_NullTargetRerun ==
    /\ TaskRunRerunsNull
    /\ (last.op = "new" /\ last.ok) => \A id \in NullNodes : ~dag[id].is_done
    /\ last.op = "run" =>
            \A id \in NullNodes :
                IF id \in initially_finished
                THEN frontier_of[id] = 0
                ELSE frontier_of[id] > 0
                     /\ (dag[id].task \in computed \/ id \in failed_nodes)

C16_Witness ==
    /\ RunReturnedOk
    /\ prev.op = "delete_all" /\ prev.ok
    /\ \E id \in NullNodes :
        /\ dag[id].children # {}
        /\ dag[id].task \in computed
        /\ id \notin failed_nodes

\* A closure of the current for_each that is inside run_no_deps.
Running(id) == pc = "dispatch" /\ wpc[id] \in {"compute", "write"}

C17_OneClosurePerNode ==
    pc = "dispatch" =>
        /\ DOMAIN wpc = candidate_ids
        /\ candidate_ids \subseteq not_finished
        /\ \A id \in DOMAIN dag :
            IF id \in candidate_ids
            THEN frontier_of[id] = frontier_no /\ ~dag[id].is_done
            ELSE frontier_of[id] < frontier_no
                 /\ (frontier_of[id] > 0 => id \in finished /\ dag[id].is_done)

C17_DispatchedOnce ==
    (pc = "run_loop" /\ pc' = "dispatch") =>
        \A id \in candidate_ids' : frontier_of[id] = 0 /\ wpc'[id] = "start"

\* C17: within one DAG.run, under PARALLEL as under LOCAL, run_no_deps is
\* invoked at most once per node: a frontier has one closure per node, a
\* node enters a frontier only if no earlier frontier of the run held it,
\* and a node that was dispatched is done and is not pending any more.
C17_AtMostOneWorkerPerNode ==
    []C17_OneClosurePerNode /\ [][C17_DispatchedOnce]_vars

C17_Witness ==
    /\ run_style = "PARALLEL"
    /\ frontier_no = 2
    /\ \E id1, id2 \in candidate_ids :
        /\ id1 # id2
        /\ wpc[id1] = "write"
        /\ wpc[id2] = "compute"

C18_Barrier ==
    /\ (pc = "dispatch" /\ pc' # "dispatch") =>
            /\ pc' = "run_loop"
            /\ \A id \in candidate_ids : wpc[id] = "ret"
    /\ (pc = "run_loop" /\ pc' = "dispatch") =>
            /\ \A id \in candidate_ids : wpc[id] = "ret" /\ dag[id].is_done
            /\ \A id \in candidate_ids' : wpc'[id] = "start"

C18_SeesWrites ==
    \A id \in candidate_ids :
        Running(id) =>
            \A c \in dag[id].children :
                (frontier_of[c] > 0 /\ c \notin failed_nodes /\ FileBacked(dag[c].task))
                => (frontier_of[c] < frontier_of[id] /\ Exists(dag[c].task, fs))

\* C18: under LOCAL and PARALLEL, a frontier is computed, and its closures
\* start, only when every closure of the frontier before it has returned,
\* so no two frontiers run at the same time; and a closure that runs finds
\* the target of every child that an earlier frontier dispatched and
\* whose run_no_deps returned Ok.
C18_FrontierBarrier ==
    [][C18_Barrier]_vars /\ []C18_SeesWrites

C18_Witness ==
    /\ run_style = "PARALLEL"
    /\ frontier_no = 2
    /\ \E id \in candidate_ids :
        /\ Running(id)
        /\ \E c \in dag[id].children :
            /\ frontier_of[c] = 1
            /\ c \notin failed_nodes
            /\ ~Exists(dag[c].task, fs_at_start)
            /\ Exists(dag[c].task, fs)

\* A PARALLEL run has returned that started with every target of the DAG
\* absent and in which no run_no_deps failed.
ParallelRunFromAbsent ==
    /\ RunReturnedOk
    /\ run_style = "PARALLEL"
    /\ \A id \in DOMAIN dag : ~Exists(dag[id].task, fs_at_start)
    /\ failed_nodes = {}

\* Every node's target holds what its compute_output makes of its
\* children's targets; in the graph of the tests, FinalTask's target holds
\* "dep1 data - dep3 data - dep2".
TargetsHoldComputed ==
    /\ \A id \in DOMAIN dag :
            Read(dag[id].task, fs) = ComputeOutput(dag[id].task, fs)
    /\ tasks = GTest => fs[tasks[head_task].target] = <<2, Sep, 4, Sep, 3>>

\* C19, as stated: a PARALLEL DAG.run that starts while every target is
\* absent, and whose computes and writes succeed, leaves every node's
\* target holding the value its compute_output produces.
C19_ParallelRunContentAnyDag ==
    ParallelRunFromAbsent => TargetsHoldComputed

\* C19, amended: the same for a DAG none of whose nodes is done when the
\* run starts (a DAG built by DAG::new, or reset by delete_all, while the
\* targets are absent); a node that is done is not dispatched, and its
\* target stays absent.
C19_ParallelRunContent ==
    (ParallelRunFromAbsent /\ initially_finished = {}) => TargetsHoldComputed

C19_Witness ==
    /\ ParallelRunFromAbsent
    /\ initially_finished = {}
    /\ tasks = GTest
    /\ GetData(head_task, fs).data = <<2, Sep, 4, Sep, 3>>

TaskRunFailed == last.op = "task_run" /\ ~last.ok

\* The step in which a call inside head.run() returns Err ends the whole
\* invocation, whatever dependencies the callers had yet to run, and
\* writes nothing (a failing write may leave its own file partly written).
C20_ErrStep ==
    (last'.op = "task_run" /\ ~last'.ok) =>
        /\ pc' = "idle"
        /\ stack' = <<>>
        /\ last'.why # "write" => fs' = fs
        /\ computed' \subseteq computed \cup {last'.task}

\* When head.run() has returned Err because of a dependency, or of its own
\* get_dep_tasks or get_target, the head's compute_output was not entered
\* and its target is as it was; when compute_output or validate failed,
\* the failing task's target was not written.
C20_ErrState ==
    TaskRunFailed =>
        /\ pc = "idle"
        /\ stack = <<>>
        /\ (last.task # head_task \/ last.why \in {"get_dep_tasks", "get_target"}) =>
                /\ head_task \notin computed
                /\ TargetState(head_task, fs) = TargetState(head_task, fs_at_start)
        /\ last.why \in {"compute", "validate"} =>
                TargetState(last.task, fs) = NoFile

\* C20: an Err inside Task::run (a dependency's run, get_dep_tasks,
\* get_target / exists, compute_output, validate) makes Task::run return
\* Err at once: no remaining dependency is run, and the task's own
\* compute_output and write that had not happened do not happen.
C20_TaskRunErrorAborts ==
    []C20_ErrState /\ [][C20_ErrStep]_vars

C20_Witness ==
    /\ TaskRunFailed
    /\ last.task # head_task
    /\ computed # {}
    /\ \E d \in tasks[head_task].deps :
        /\ d # last.task
        /\ d \notin computed
        /\ FileBacked(d)
        /\ ~Exists(d, fs)

\* Every child id of a node of `nodes` is a node of `nodes`.
Complete(nodes) ==
    \A id \in DOMAIN nodes : nodes[id].children \subseteq DOMAIN nodes

NewFailed == last.op = "new" /\ ~last.ok

\* The step in which make_node returns Err ends DAG::new, hands the caller
\* no DAG and leaves the DAG he had, and the file system, as they were.
C21_ErrStep ==
    (last'.op = "new" /\ ~last'.ok) =>
        /\ pc' = "idle"
        /\ dag' = dag
        /\ processed' = <<>>
        /\ to_process' = <<>>
        /\ fs' = fs

\* The caller's DAG changes in DAG::new only when it returns Ok, to a DAG
\* that has all the nodes.
C21_OkStep ==
    (pc = "new" /\ dag' # dag) =>
        /\ last'.op = "new" /\ last'.ok
        /\ to_process = <<>>
        /\ dag' = processed
        /\ Complete(dag')

C22_FrontierSelection ==
    pc = "dispatch" =>
        /\ finished \cup not_finished = DOMAIN dag
        /\ finished \cap not_finished = {}
        /\ \A id \in candidate_ids :
            /\ id \in not_finished
            /\ ~dag[id].is_done
            /\ dag[id].children \cap not_finished = {}
            /\ dag[id].children \subseteq finished

C22_Witness ==
    /\ pc = "dispatch"
    /\ frontier_no = 2
    /\ \E id \in candidate_ids :
        /\ dag[id].children \cap initially_finished # {}
        /\ dag[id].children \ initially_finished # {}

\* The nodes the remaining graph (the pending nodes and the edges between
\* them) links id to, id among them.
RECURSIVE PendingBelow(_, _, _)
PendingBelow(nodes, pending, id) ==
    {id} \cup UNION {PendingBelow(nodes, pending, c) : c \in nodes[id].children \cap pending}

\* The descendants of id in the DAG, id among them.
RECURSIVE Below(_, _)
Below(nodes, id) ==
    {id} \cup UNION {Below(nodes, c) : c \in nodes[id].children}

\* C23, as stated: every frontier holds every pending node whose children
\* are all finished, and no member is a descendant of another member.
C23_AntichainOfDag ==
    pc = "dispatch" =>
        /\ \A id \in not_finished :
            dag[id].children \subseteq finished => id \in candidate_ids
        /\ \A a \in candidate_ids : Below(dag, a) \cap candidate_ids = {a}

\* C23, amended: every frontier is a maximal antichain of the remaining
\* graph (the pending nodes and the edges between them): it holds every
\* pending node whose children are all finished, no member is linked to
\* another one through pending nodes, and every pending node outside it is
\* linked to a member.  In the DAG itself no member is the child of
\* another one, and none is a descendant of another one when the done
\* nodes were downward-closed at the start of the run; otherwise a pending
\* node and a pending descendant below a done node share a frontier.
C23_MaximalAntichain ==
    pc = "dispatch" =>
        /\ \A id \in not_finished :
            dag[id].children \subseteq finished => id \in candidate_ids
        /\ \A a \in candidate_ids :
            /\ PendingBelow(dag, not_finished, a) \cap candidate_ids = {a}
            /\ dag[a].children \cap candidate_ids = {}
            /\ ClosedAtRunStart => Below(dag, a) \cap candidate_ids = {a}
        /\ \A n \in not_finished \ candidate_ids :
            PendingBelow(dag, not_finished, n) \cap candidate_ids # {}

C23_Witness ==
    /\ pc = "dispatch"
    /\ run_style = "PARALLEL"
    /\ \E a, b \in candidate_ids :
        /\ a # b
        /\ b \in Below(dag, a)

NewReturnedOk == last.op = "new" /\ last.ok

\* C24: in every DAG that DAG::new returned exactly one node has parent =
\* None, and its task is the head task.
C24_OneHead ==
    dag # <<>> =>
        \E h \in DOMAIN dag :
            /\ dag[h].parent = NoParent
            /\ dag[h].task = head_task
            /\ \A id \in DOMAIN dag \ {h} : dag[id].parent # NoParent

C24_Witness ==
    /\ NewReturnedOk
    /\ Cardinality(DOMAIN dag) >= 4
    /\ Cardinality({id \in DOMAIN dag : dag[id].parent = NoParent}) = 1

\* C25: in every DAG that DAG::new returned, and after run and delete_all
\* in any order, every child id of a node N is a node whose parent is N,
\* and every node that has a parent P is among the children of P.
C25_ParentChildrenAgree ==
    \A id \in DOMAIN dag :
        /\ dag[id].id = id
        /\ \A c \in dag[id].children :
            c \in DOMAIN dag /\ dag[c].parent = id
        /\ dag[id].parent # NoParent =>
            /\ dag[id].parent \in DOMAIN dag
            /\ id \in dag[dag[id].parent].children

C25_Witness ==
    /\ last.op = "delete_all" /\ last.ok
    /\ prev.op = "run"
    /\ \E id \in DOMAIN dag :
        /\ dag[id].parent # NoParent
        /\ dag[id].children # {}

IsDoneIsExists ==
    NewReturnedOk =>
        \A id \in DOMAIN dag : dag[id].is_done <=> Exists(dag[id].task, fs)

BuiltAfterTaskRun == NewReturnedOk /\ prev.op = "task_run" /\ prev.ok

\* C26, as stated: when DAG::new returns, is_done of every node is what
\* exists() of its target is; a DAG built after a Task::run of the head
\* that returned Ok has every node done.
C26_InitialDoneAllAfterRun ==
    /\ IsDoneIsExists
    /\ BuiltAfterTaskRun => \A id \in DOMAIN dag : dag[id].is_done

\* C26, amended: when DAG::new returns, is_done of every node is what
\* exists() of its target is: no node is done when all targets are
\* absent, and after a Task::run of the head that returned Ok every node
\* with a file target is done, and no node with a NullTarget is.
C26_InitialDone ==
    /\ IsDoneIsExists
    /\ (NewReturnedOk /\ \A t \in Reach(tasks, head_task) : ~Exists(t, fs)) =>
            \A id \in DOMAIN dag : ~dag[id].is_done
    /\ BuiltAfterTaskRun =>
            \A id \in DOMAIN dag : dag[id].is_done <=> FileBacked(dag[id].task)

C26_Witness ==
    /\ BuiltAfterTaskRun
    /\ Cardinality(DOMAIN dag) >= 4
    /\ \A id \in DOMAIN dag : dag[id].is_done

\* The number of paths of the task graph from task k down, k alone being
\* one.
RECURSIVE NumPaths(_, _)
RECURSIVE SumPaths(_, _)
NumPaths(g, k) ==
    1 + SumPaths(g, g[k].deps)

SumPaths(g, S) ==
    IF S = {}
    THEN 0
    ELSE LET d == CHOOSE x \in S : TRUE
         IN  NumPaths(g, d) + SumPaths(g, S \ {d})

\* C27: DAG::new makes one node for every dependency a node's task
\* declares, with an id of its own: a task that two parents declare gets
\* two nodes, one under each, and the DAG has as many nodes as the task
\* graph has paths from the head.
C27_NoDeduplication ==
    NewReturnedOk =>
        /\ Cardinality(DOMAIN dag) = NumPaths(tasks, head_task)
        /\ \A id \in DOMAIN dag :
            /\ Cardinality(dag[id].children) = Cardinality(tasks[dag[id].task].deps)
            /\ {dag[c].task : c \in dag[id].children} = tasks[dag[id].task].deps
        /\ \A a, b \in DOMAIN dag :
            a # b => dag[a].children \cap dag[b].children = {}

C27_Witness ==
    /\ NewReturnedOk
    /\ \E a, b \in DOMAIN dag :
        /\ a # b
        /\ dag[a].task = dag[b].task
        /\ dag[a].parent # dag[b].parent

\* C28: while a frontier is dispatched, under LOCAL and PARALLEL, no node
\* changes; the node map changes only when every closure has returned,
\* and then only is_done of the members of the frontier, to true.
C28_Frame ==
    /\ (pc = "dispatch" /\ pc' = "dispatch") => dag' = dag
    /\ pc = "run_loop" => dag' = dag
    /\ (pc = "dispatch" /\ pc' # "dispatch") =>
            /\ \A id \in candidate_ids : wpc[id] = "ret"
            /\ DOMAIN dag' = DOMAIN dag
            /\ \A id \in DOMAIN dag :
                dag'[id] = IF id \in candidate_ids
                           THEN [dag[id] EXCEPT !.is_done = TRUE]
                           ELSE dag[id]

C28_DispatchFrame ==
    [][C28_Frame]_vars

C28_Witness ==
    /\ pc = "run_loop"
    /\ run_style = "PARALLEL"
    /\ frontier_no = 1
    /\ Cardinality(candidate_ids) >= 2
    /\ not_finished # {}
    /\ \A id \in candidate_ids : dag[id].is_done

\* The steps of one and the same DAG (DAG::new returns another one).
SameDag == pc # "new" /\ DOMAIN dag' = DOMAIN dag

C29_Step ==
    SameDag =>
        /\ \A id \in DOMAIN dag :
            /\ (~dag[id].is_done /\ dag'[id].is_done) =>
                    /\ pc = "dispatch"
                    /\ id \in candidate_ids
                    /\ frontier_of[id] = frontier_no
            /\ (dag[id].is_done /\ ~dag'[id].is_done) => pc = "delete_all"
        /\ (pc = "dispatch" /\ pc' = "run_loop") =>
                \A id \in candidate_ids : ~dag[id].is_done /\ dag'[id].is_done

C29_AfterRun ==
    last.op = "run" =>
        \A id \in DOMAIN dag :
            /\ dag[id].is_done
            /\ id \in initially_finished <=> frontier_of[id] = 0

DepsReadable(t, f) ==
    tasks[t].reads => ReadDeps(tasks[t].deps, f).ok

\* A step of the closure of node id.
WorkerStep(id) ==
    pc = "dispatch" /\ id \in candidate_ids /\ pc' = "dispatch" /\ wpc'[id] # wpc[id]

C30_Step ==
    \A id \in candidate_ids :
        WorkerStep(id) =>
            /\ \A x \in Files : fs'[x] # fs[x] => x = tasks[dag[id].task].target
            /\ computed' \subseteq computed \cup {dag[id].task}
            /\ (wpc[id] = "start" /\ faults' = faults /\ Exists(dag[id].task, fs)) =>
                    (wpc'[id] = "ret" /\ fs' = fs /\ computed' = computed)
            /\ (wpc[id] = "compute" /\ faults' = faults /\ DepsReadable(dag[id].task, fs)) =>
                    (wpc'[id] = "write" /\ wdata'[id] = ComputeOutput(dag[id].task, fs).data)
            /\ (wpc[id] = "write" /\ faults' = faults) =>
                    fs' = Write(dag[id].task, fs, wdata[id])

\* C30: run_no_deps runs no dependency and never calls validate: it
\* touches no target but its own and enters no compute_output but its
\* own, does nothing when the target exists, and otherwise writes what
\* compute_output returned, whether validate would accept it or not.
C30_RunNoDepsNoValidate ==
    [][C30_Step]_vars

C30_Witness ==
    /\ RunReturnedOk
    /\ failed_nodes = {}
    /\ ~Exists(head_task, fs_at_start)
    /\ Exists(head_task, fs)
    /\ ~Validate(head_task, Read(head_task, fs).data)

\* The targets of the tasks in S.
TargetsOf(S) == {tasks[d].target : d \in S} \ {NullTarget}

\* The task whose delete_deps is running or has returned last.
DeleteDepsOf ==
    IF pc = "delete_deps" THEN Top.task ELSE last.task

\* C31: when delete_deps of a task returns Ok, no target of a direct
\* dependency exists; while it runs and when it has returned, Ok or Err,
\* every file that is not the target of a direct dependency holds what it
\* held before: the task's own target and the targets of the dependencies
\* of its dependencies among them.
C31_DeleteDepsDirectOnly ==
    /\ (last.op = "delete_deps" /\ last.ok) =>
            \A d \in tasks[last.task].deps : ~Exists(d, fs)
    /\ (pc = "delete_deps" \/ last.op = "delete_deps") =>
            /\ \A x \in Files \ TargetsOf(tasks[DeleteDepsOf].deps) :
                    fs[x] = fs_at_start[x]
            /\ TargetState(DeleteDepsOf, fs) = TargetState(DeleteDepsOf, fs_at_start)
            /\ \A d \in tasks[DeleteDepsOf].deps : \A g \in tasks[d].deps :
                    TargetState(g, fs) = TargetState(g, fs_at_start)

C31_Witness ==
    /\ last.op = "delete_deps"
    /\ last.ok
    /\ last.task = head_task
    /\ \A k \in Reach(tasks, head_task) : Exists(k, fs_at_start)
    /\ \E d \in tasks[head_task].deps : tasks[d].deps # {}
    /\ Exists(head_task, fs)

\* C32: when recursively_delete_deps of lib.rs returns Ok on the head, the
\* target of every transitive dependency of the head, at any depth, does
\* not exist.
C32_RecursivelyDeleteDepsAll ==
    (last.op = "lib_rdel" /\ last.ok) =>
        \A d \in Reach(tasks, head_task) \ {head_task} : ~Exists(d, fs)

\* The nodes of task t that were not done when the run started.
PendingNodesOf(t) ==
    {id \in DOMAIN dag \ initially_finished : dag[id].task = t}

\* C33: a node that is done when DAG.run starts is in no frontier of that
\* run, has no closure, and stays done; its task's compute_output is
\* entered and its target is written only on behalf of another node of
\* the same task that was not done.  This holds also when its target does
\* not exist any more and when a child of it is not done.
C33_DoneNeverDispatched ==
    InRun =>
        \A id \in initially_finished :
            /\ dag[id].is_done
            /\ frontier_of[id] = 0
            /\ id \notin candidate_ids
            /\ id \notin DOMAIN wpc
            /\ id \notin not_finished
            /\ PendingNodesOf(dag[id].task) = {} =>
                    /\ dag[id].task \notin computed
                    /\ TargetState(dag[id].task, fs) = TargetState(dag[id].task, fs_at_start)

C33_Witness ==
    /\ RunReturnedOk
    /\ \E id \in initially_finished :
        /\ FileBacked(dag[id].task)
        /\ ~Exists(dag[id].task, fs_at_start)
        /\ ~Exists(dag[id].task, fs)
        /\ \E c \in dag[id].children :
            c \notin initially_finished /\ frontier_of[c] > 0

\* No two nodes of the DAG have the same target.
NoSharedTargets ==
    \A id1, id2 \in DOMAIN dag :
        id1 # id2 => tasks[dag[id1].task].target # tasks[dag[id2].task].target

\* DAG.run has returned; it was called on the DAG that DAG::new had just
\* returned, and the run_no_deps of every dispatched node returned Ok.
RunAfterNewAllOk ==
    /\ RunReturnedOk
    /\ prev.op = "new"
    /\ prev.ok
    /\ failed_nodes = {}

\* C34: after a DAG.run that directly follows DAG::new and in which every
\* dispatched run_no_deps succeeded, on a DAG without NullTarget and
\* without two nodes of one target, every node is done and the target of
\* every node exists.
C34_DoneImpliesExists ==
    (/\ RunAfterNewAllOk
     /\ \A id \in DOMAIN dag : FileBacked(dag[id].task)
     /\ NoSharedTargets)
    => \A id \in DOMAIN dag : dag[id].is_done /\ Exists(dag[id].task, fs)

C34_Witness ==
    /\ RunAfterNewAllOk
    /\ \A id \in DOMAIN dag : FileBacked(dag[id].task)
    /\ NoSharedTargets
    /\ Cardinality(DOMAIN dag) >= 4
    /\ initially_finished # {}
    /\ \E id \in DOMAIN dag : frontier_of[id] = 2 /\ ~Exists(dag[id].task, fs_at_start)

\* The DAG as it was when the run started.
StartDag ==
    [id \in DOMAIN dag |-> [dag[id] EXCEPT !.is_done = (id \in initially_finished)]]

\* What the policies are compared with: the frontiers that the flags at
\* the start of the run determine, and the file system after each, every
\* task of a frontier finding what the frontier before it left.
RECURSIVE RefPending(_)
RefPending(k) ==
    IF k = 0
    THEN DOMAIN dag \ initially_finished
    ELSE RefPending(k - 1) \ get_run_candidates(StartDag, RefPending(k - 1))

RefFrontier(k) ==
    get_run_candidates(StartDag, RefPending(k - 1))

RECURSIVE RefFs(_)
RefFs(k) ==
    IF k = 0
    THEN fs_at_start
    ELSE LET f == RefFs(k - 1)
             Writers(x) == {id \in RefFrontier(k) :
                               /\ tasks[dag[id].task].target = x
                               /\ NeedsCompute(dag[id].task, f)
                               /\ ComputeOutput(dag[id].task, f).ok}
         IN  [x \in Files |->
                 IF Writers(x) # {}
                 THEN ComputeOutput(dag[CHOOSE id \in Writers(x) : TRUE].task, f).data
                 ELSE f[x]]

\* The nodes dispatched in one frontier with id.
SameFrontier(id) ==
    {o \in DOMAIN dag \ {id} : frontier_of[o] > 0 /\ frontier_of[o] = frontier_of[id]}

\* The tasks of one frontier write to pairwise distinct targets.
DistinctWrites ==
    \A id \in DOMAIN dag : \A o \in SameFrontier(id) :
        FileBacked(dag[id].task) =>
            tasks[dag[id].task].target # tasks[dag[o].task].target

\* No task of a frontier reads a target that a task of the same frontier
\* writes.
NoReadOfFrontierWrite ==
    \A id \in DOMAIN dag : \A o \in SameFrontier(id) :
        tasks[dag[id].task].reads =>
            tasks[dag[o].task].target \notin TargetsOf(tasks[dag[id].task].deps)

\* No I/O error has been injected since the current call started.
NoFaultInCall == faults = prev.faults

\* DAG.run is between two frontiers, or has returned.
BetweenFrontiers == pc = "run_loop" \/ last.op = "run"

\* The run has gone through frontier_no frontiers as the flags at its
\* start determine them, the nodes of these frontiers are done, and the
\* targets are what these frontiers make of the targets at its start.
AsReference ==
    /\ \A id \in DOMAIN dag :
            /\ frontier_of[id] > 0 => id \in RefFrontier(frontier_of[id])
            /\ dag[id].is_done <=> (id \in initially_finished \/ frontier_of[id] > 0)
    /\ \A k \in 1..frontier_no :
            RefFrontier(k) = {id \in DOMAIN dag : frontier_of[id] = k}
    /\ last.op = "run" => \A id \in DOMAIN dag : dag[id].is_done
    /\ fs = RefFs(frontier_no)

RECURSIVE RecRun(_, _)
RECURSIVE RecRunDeps(_, _)
RecRun(t, f) ==
    LET after == RecRunDeps(tasks[t].deps, f)
        r == ComputeOutput(t, after.fs)
    IN  IF ~after.ok
        THEN after
        ELSE IF Exists(t, after.fs)
        THEN after
        ELSE IF r.ok /\ Validate(t, r.data)
        THEN [fs |-> Write(t, after.fs, r.data), ok |-> TRUE]
        ELSE [fs |-> after.fs, ok |-> FALSE]

RecRunDeps(S, f) ==
    IF S = {}
    THEN [fs |-> f, ok |-> TRUE]
    ELSE LET d == Min(S)
             first == RecRun(d, f)
         IN  IF first.ok THEN RecRunDeps(S \ {d}, first.fs) ELSE first

\* DAG.run(LOCAL) has returned; it was called on the DAG that DAG::new
\* had just returned, and no I/O error occurred in it.
ScheduledRun ==
    /\ RunReturnedOk
    /\ run_style = "LOCAL"
    /\ prev.op = "new"
    /\ prev.ok
    /\ NoFaultInCall

\* C36: when head.run() returns Ok, the targets are what the recursion
\* makes of the targets it started from; and when that recursion succeeds
\* (every compute_output succeeds and validate accepts every output), a
\* DAG::new(head) followed by DAG.run(LOCAL) without I/O error has no
\* failing run_no_deps and leaves every target with the same existence
\* and content, whatever targets existed at the start.
C36_RecursiveEqualsScheduled ==
    /\ (last.op = "task_run" /\ last.ok) =>
            /\ RecRun(head_task, fs_at_start).ok
            /\ fs = RecRun(head_task, fs_at_start).fs
    /\ (ScheduledRun /\ RecRun(head_task, fs_at_start).ok) =>
            /\ failed_nodes = {}
            /\ fs = RecRun(head_task, fs_at_start).fs

C36_Witness ==
    /\ ScheduledRun
    /\ RecRun(head_task, fs_at_start).ok
    /\ initially_finished # {}
    /\ frontier_no >= 2
    /\ Cardinality(computed) >= 2
    /\ \E id \in DOMAIN dag \ initially_finished :
            \E c \in dag[id].children : c \in initially_finished

\* The nodes that delete_all has visited, and those it has not.
Visited == DOMAIN dag \ del_todo

\* delete_all returns Err in this step.
DeleteAllFails ==
    pc = "delete_all" /\ pc' = "idle" /\ last'.op = "delete_all" /\ ~last'.ok

\* A visited node has the target of node id.
TargetVisited(id) ==
    \E v \in Visited : tasks[dag[v].task].target = tasks[dag[id].task].target

C37_VisitedAreReset ==
    pc = "delete_all" =>
        \A v \in Visited : ~dag[v].is_done /\ ~Exists(dag[v].task, fs)

\* C37, as stated: when delete_all returns Err, the nodes visited before
\* the failing one have their targets deleted and is_done = false, and the
\* failing node and the nodes not yet visited have the is_done flags and
\* the targets they had when delete_all was called.
C37_FailStepAsStated ==
    DeleteAllFails =>
        /\ \A v \in Visited : ~dag'[v].is_done /\ ~Exists(dag[v].task, fs')
        /\ \A id \in del_todo :
            /\ dag'[id] = dag[id]
            /\ TargetState(dag[id].task, fs') = TargetState(dag[id].task, fs_at_start)

C37_PartialDeleteAllKeepsTargets ==
    [][C37_FailStepAsStated]_vars

C37_Step ==
    pc = "delete_all" =>
        \/ /\ DeleteAllFails
           /\ last'.task \in {dag[id].task : id \in del_todo}
           /\ dag' = dag
           /\ fs' = fs
           /\ \A id \in del_todo :
                IF TargetVisited(id)
                THEN ~Exists(dag[id].task, fs')
                ELSE TargetState(dag[id].task, fs') = TargetState(dag[id].task, fs_at_start)
        \/ /\ pc' = "delete_all"
           /\ \E id \in del_todo :
                /\ del_todo' = del_todo \ {id}
                /\ dag' = [dag EXCEPT ![id].is_done = FALSE]
                /\ fs' = Delete(dag[id].task, fs)
        \/ /\ pc' = "idle"
           /\ last'.ok
           /\ del_todo = {}
           /\ dag' = dag
           /\ fs' = fs

\* C37: delete_all visits one node at a time, deleting its target and
\* resetting its flag; when delete_data fails for a node it returns Err
\* there and changes nothing more: the visited nodes are reset and their
\* targets deleted, the failing node and the nodes not yet visited keep
\* their flags, and keep their targets unless a visited node has the same
\* target, which is then deleted.
C37_PartialDeleteAll ==
    [][C37_Step]_vars /\ []C37_VisitedAreReset

C37_Witness ==
    /\ last.op = "delete_all"
    /\ ~last.ok
    /\ \E v \in DOMAIN dag :
        /\ ~dag[v].is_done
        /\ Exists(dag[v].task, fs_at_start)
        /\ ~Exists(dag[v].task, fs)
    /\ \E id \in DOMAIN dag :
        /\ dag[id].is_done
        /\ Exists(dag[id].task, fs)
        /\ dag[id].task = last.task
====
